---------------------------- MODULE Spec2Model ----------------------------
(***************************************************************************)
(* Lyric transcription scripts of the twoyear repository.                  *)
(*                                                                         *)
(*   transcribe.py     free transcription: the Line Segmenter and the      *)
(*                     Output Assembler                                    *)
(*   transcribe_v2.py  guided alignment: the Word Mapper, the Timestamp    *)
(*                     Repairer, the Section Labeler, the Output Assembler *)
(*                                                                         *)
(* Times.  The alignment engine returns Python floats; both scripts round  *)
(* them to 2 decimals on entry and after every correction, so every time   *)
(* the scripts store is the binary64 number nearest to k/100 for an        *)
(* integer k.  The model stores k (centiseconds) and takes the engine's    *)
(* raw times in milliseconds.  The scripts compare DIFFERENCES of stored   *)
(* times with thresholds in binary64 arithmetic; those comparisons are     *)
(* modelled bit-exactly (FloatSubGT), because at a gap of exactly the      *)
(* threshold the binary64 result depends on the operands.                  *)
(*                                                                         *)
(* Text.  A string is a sequence of one-character strings.                 *)
(***************************************************************************)
EXTENDS Integers, Sequences, FiniteSets

(***************************************************************************)
(* Bounds of the model.                                                    *)
(***************************************************************************)
\* the most ground-truth lines of a run
MaxLines == 2
\* the most characters of a ground-truth line
MaxLineLen == 3
\* the most word observations the alignment engine returns
MaxObs == 3

(***************************************************************************)
(* The scripts' literals, in centiseconds.                                 *)
(***************************************************************************)
\* transcribe.py:53      t - last_end > 0.8
PauseGap == 80
\* transcribe_v2.py:118  words[-1]["time"] + 0.3
SynthStep == 30
\* transcribe_v2.py:141  cur_time - prev_time > 4.0
SameLineMax == 400
\* transcribe_v2.py:143  prev_time + 0.28
SameLineStep == 28
\* transcribe_v2.py:149  prev_time + 0.6
CrossLineBack == 60
\* transcribe_v2.py:151  cur_time - prev_time > 10.0
CrossLineMax == 1000
\* transcribe_v2.py:154  prev_time + 2.0
CrossLineStep == 200
\* transcribe_v2.py:161  range(5)
MaxPasses == 5
\* transcribe_v2.py:181  line_w[0]["time"] - 0.5
SectionLead == 50

(***************************************************************************)
(* Python floats (IEEE 754 binary64, round to nearest, ties to even).      *)
(*                                                                         *)
(* For integers k > 0 and den, fl(k/den) = M / 2^s with 2^52 <= M < 2^53,  *)
(* s = Shift(k, den), and  M * den = k * 2^s + Err(k, den).                *)
(***************************************************************************)
RECURSIVE Pow2(_)
Pow2(n) == IF n = 0 THEN 1 ELSE 2 * Pow2(n - 1)

RECURSIVE PowMod2(_, _)
\* 2^n modulo m
PowMod2(n, m) == IF n = 0 THEN 1 % m ELSE (2 * PowMod2(n - 1, m)) % m

RECURSIVE ExpUp(_, _, _)
ExpUp(k, den, e) ==
    IF den * Pow2(e + 1) <= k THEN ExpUp(k, den, e + 1) ELSE e

RECURSIVE ExpDown(_, _, _)
ExpDown(k, den, n) ==
    IF k * Pow2(n) >= den THEN 0 - n ELSE ExpDown(k, den, n + 1)

\* floor(log2(k/den)), the binary exponent of k/den, k > 0
BinExp(k, den) == IF k >= den THEN ExpUp(k, den, 0) ELSE ExpDown(k, den, 1)

\* the scale s of fl(k/den); 0 for k = 0, which is exact at every scale
Shift(k, den) == IF k = 0 THEN 0 ELSE 52 - BinExp(k, den)

\* den * 2^s * (fl(k/den) - k/den): the rounding error of fl(k/den), in
\* units of 1/(den * 2^s).  k * 2^s is never half-way between two multiples
\* of den for den in {100, 1000} and s >= 3, so no tie arises here.
Err(k, den) ==
    IF k = 0 THEN 0
    ELSE LET rem == ((k % den) * PowMod2(Shift(k, den), den)) % den
         IN  IF 2 * rem < den THEN 0 - rem ELSE den - rem

\* whether the 53-bit significand M of fl(k/den) is odd
MantOdd(k, den) ==
    LET m2 == 2 * den
    IN  ((k % m2) * PowMod2(Shift(k, den), m2) + Err(k, den)) % m2 = den

Max2(x, y) == IF x >= y THEN x ELSE y

\* the rounding error of fl(k/100) in units of 1/(100 * 2^S), S >= Shift(k, 100)
ErrAt(k, S) == IF k = 0 THEN 0 ELSE Err(k, 100) * Pow2(S - Shift(k, 100))

\* Python's  a/100 - b/100 > T/100  on stored times a, b >= 0 and a literal
\* T > 0, all in centiseconds.  Away from a - b = T the rounding errors
\* (below 2^-40) cannot change the outcome.  At a - b = T the exact
\* difference of the two floats is rounded to nearest and exceeds fl(T/100)
\* iff it lies above the midpoint between fl(T/100) and the next float up,
\* or on it when the significand of fl(T/100) is odd.
FloatSubGT(a, b, T) ==
    IF a - b # T THEN a - b > T
    ELSE LET S    == Max2(Max2(Shift(a, 100), Shift(b, 100)), Shift(T, 100))
             E    == ErrAt(a, S) - ErrAt(b, S)
             D    == ErrAt(T, S)
             half == 50 * Pow2(S - Shift(T, 100))
         IN  \/ E - D > half
             \/ E - D = half /\ MantOdd(T, 100)

\* Python's round(ms/1000, 2) in centiseconds: the float's exact binary
\* value is rounded to 2 decimals, half to even.  A decimal tie ...5 ms is a
\* true tie only when ms/1000 is exact in binary; otherwise the float lies
\* on one side of it.
Round2(ms) ==
    LET q == ms \div 10
        r == ms % 10
        e == Err(ms, 1000)
    IN  IF r < 5 THEN q
        ELSE IF r > 5 THEN q + 1
        ELSE IF e < 0 THEN q
        ELSE IF e > 0 THEN q + 1
        ELSE IF q % 2 = 0 THEN q ELSE q + 1

\* Python's round(t + c, 2) for a stored time t and a 2-decimal literal c,
\* in centiseconds: the float sum is within 2^-40 of (t + c)/100, so the
\* rounding returns the float nearest to (t + c)/100.
RoundSum(t, c) == t + c

(***************************************************************************)
(* Python strings, as sequences of one-character strings.                  *)
(***************************************************************************)
IsSpace(c) == c \in {" ", "\t", "\n"}

RECURSIVE LStrip(_)
LStrip(s) ==
    IF s = <<>> THEN s
    ELSE IF IsSpace(Head(s)) THEN LStrip(Tail(s)) ELSE s

RECURSIVE RStrip(_)
RStrip(s) ==
    IF s = <<>> THEN s
    ELSE IF IsSpace(s[Len(s)]) THEN RStrip(SubSeq(s, 1, Len(s) - 1)) ELSE s

\* str.strip()
Strip(s) == RStrip(LStrip(s))

RECURSIVE SplitFrom(_, _, _)
SplitFrom(s, cur, acc) ==
    LET flushed == IF cur = <<>> THEN acc ELSE Append(acc, cur)
    IN  IF s = <<>> THEN flushed
        ELSE IF IsSpace(Head(s)) THEN SplitFrom(Tail(s), <<>>, flushed)
        ELSE SplitFrom(Tail(s), Append(cur, Head(s)), acc)

\* str.split(): the maximal runs of non-whitespace characters
Split(s) == SplitFrom(s, <<>>, <<>>)

RECURSIVE Join(_)
\* " ".join(ws)
Join(ws) ==
    IF ws = <<>> THEN <<>>
    ELSE IF Len(ws) = 1 THEN ws[1]
    ELSE ws[1] \o <<" ">> \o Join(Tail(ws))

\* all sequences over S of length at most n
SeqsUpTo(S, n) == UNION {[1..k -> S] : k \in 0..n}

(***************************************************************************)
(* State.  The names are the scripts' own.                                 *)
(***************************************************************************)
VARIABLES
    mode,               \* which script runs: "free" (transcribe.py) or "guided" (transcribe_v2.py)
    pc,                 \* the statement the script is at
    LYRICS_LINES,       \* guided: the ground-truth lines
    result,             \* the engine's word observations, segments flattened in order
    all_aligned_words,  \* guided: the non-blank observations, times rounded
    line_num,           \* guided: the mapping loop's line counter
    idx,                \* guided: the next aligned observation to consume
    pos,                \* free: how many observations the loop has visited
    line_idx,           \* free: the running line counter
    prev_seg,           \* free: the segment id of the last appended word
    words,              \* the WordRecords
    line_texts,         \* line index -> line text
    pass_num,           \* guided: repair passes run so far
    n,                  \* guided: fixes of the last repair pass
    total_fixed,        \* guided: fixes of all passes
    section_map,        \* guided: line index -> label
    sections,           \* guided: the Sections
    output              \* the OutputDocument

vars == <<mode, pc, LYRICS_LINES, result, all_aligned_words, line_num, idx, pos,
          line_idx, prev_seg, words, line_texts, pass_num, n, total_fixed,
          section_map, sections, output>>

(***************************************************************************)
(* Inputs.                                                                 *)
(***************************************************************************)
Alphabet == {"a", " "}

LineDomain == SeqsUpTo(Alphabet, MaxLineLen)

\* the lines of the spec's end-to-end example
ExampleLyrics ==
    << <<"h", "e", "l", "l", "o", " ", "w", "o", "r", "l", "d">>,
       <<"g", "o", "o", "d", "b", "y", "e", " ", "n", "o", "w">> >>

\* the observations of the spec's end-to-end example, times in ms
ExampleResult ==
    << [seg |-> 0, word |-> <<" ", "h", "e", "l", "l", "o">>, start |-> 0, end |-> 400],
       [seg |-> 0, word |-> <<" ", "w", "o", "r", "l", "d">>, start |-> 5200, end |-> 5500],
       [seg |-> 1, word |-> <<" ", "g", "o", "o", "d", "b", "y", "e">>, start |-> 5600, end |-> 6000],
       [seg |-> 1, word |-> <<" ", "n", "o", "w">>, start |-> 6100, end |-> 6400] >>

LyricsDomain == SeqsUpTo(LineDomain, MaxLines) \cup {ExampleLyrics}

\* a line of one-letter words, single-spaced, without surrounding whitespace
PlainLine(line) == line = Join([i \in 1..Len(Split(line)) |-> <<"a">>])

PlainLyrics(lines) == \A i \in 1..Len(lines) : PlainLine(lines[i])

\* what the engine recognises: a word with its leading space, or a blank token
HeardWord == <<" ", "x">>
BlankWord == <<" ">>

\* guided observations: start times (ms) that put a regression, a gap over
\* 4 s, a gap of exactly 4.00 s on either side of the float comparison and a
\* gap over 10 s between neighbours
GuidedStarts == {4055, 8050, 12050, 23000}

GuidedObs ==
    {[seg |-> 0, word |-> HeardWord, start |-> s, end |-> s + 300] : s \in GuidedStarts}
        \cup {[seg |-> 0, word |-> BlankWord, start |-> 0, end |-> 0]}

\* k evenly spaced observations, one second apart
RegularResult(k) ==
    [i \in 1..k |-> [seg |-> 0, word |-> HeardWord, start |-> 1000 * i, end |-> 1000 * i + 300]]

\* free-transcription observations: (start, end) pairs (ms) whose pauses
\* cover more than 0.8 s, exactly 0.80 s on either side of the float
\* comparison, and less
FreeTimes == { <<0, 200>>, <<250, 575>>, <<1000, 1200>>, <<1370, 1500>> }

FreeObs ==
    {[seg |-> g, word |-> HeardWord, start |-> se[1], end |-> se[2]] :
        g \in {0, 1}, se \in FreeTimes}
        \cup {[seg |-> g, word |-> BlankWord, start |-> 3000, end |-> 3000] : g \in {0, 1}}

\* the source's section table, and tables over the lines of a bounded run
SourceSectionMap ==
    [i \in {0, 8, 10, 18, 23} |->
        IF i = 0 THEN "Verse 1"
        ELSE IF i = 8 THEN "Pre-Chorus"
        ELSE IF i = 18 THEN "Verse 2"
        ELSE "Chorus"]

\* a table over the lines S, labelled like the source's: "Verse 1" on the lines
\* V, "Chorus" on the others
SectionMapOn(S, V) == [i \in S |-> IF i \in V THEN "Verse 1" ELSE "Chorus"]

\* every index of a bounded run, and one beyond, mapped to the same label
FullSectionMap == SectionMapOn(0..MaxLines, {})

SectionMaps ==
    {SectionMapOn(S, V) : S \in SUBSET (0..MaxLines), V \in {{}, {0}}}
        \cup {SourceSectionMap}

(***************************************************************************)
(* Initial state: a script is chosen; transcribe_v2.py carries its lyrics  *)
(* as a module constant.  Variables not yet assigned hold an empty value.  *)
(***************************************************************************)
Init ==
    /\ mode \in {"free", "guided"}
    /\ pc = "start"
    /\ LYRICS_LINES \in (IF mode = "guided" THEN LyricsDomain ELSE {<<>>})
    /\ result = <<>>
    /\ all_aligned_words = <<>>
    /\ line_num = 0
    /\ idx = 0
    /\ pos = 0
    /\ line_idx = 0
    /\ prev_seg = -1
    /\ words = <<>>
    /\ line_texts = <<>>
    /\ pass_num = -1
    /\ n = 0
    /\ total_fixed = 0
    /\ section_map = <<>>
    /\ sections = <<>>
    /\ output = <<>>

(***************************************************************************)
(* transcribe_v2.py: guided alignment.                                     *)
(***************************************************************************)
\* The observations explored with given lyrics: the example's observations
\* with the example's lyrics; evenly spaced observations with arbitrary
\* text; arbitrary observations too with plain lyrics.
ResultsFor(lines) ==
    IF lines = ExampleLyrics THEN {ExampleResult}
    ELSE {RegularResult(k) : k \in 0..MaxObs}
            \cup (IF PlainLyrics(lines) THEN SeqsUpTo(GuidedObs, MaxObs) ELSE {})

\* model.align(AUDIO, FULL_TEXT): the engine returns its observations
Align ==
    /\ mode = "guided" /\ pc = "start"
    /\ result' \in ResultsFor(LYRICS_LINES)
    /\ pc' = "extract"
    /\ UNCHANGED <<mode, LYRICS_LINES, all_aligned_words, line_num, idx, pos,
                   line_idx, prev_seg, words, line_texts, pass_num, n,
                   total_fixed, section_map, sections, output>>

RECURSIVE ExtractWords(_)
\* the non-blank observations, stripped, with start and end rounded
ExtractWords(obs) ==
    IF obs = <<>> THEN <<>>
    ELSE LET w == Strip(Head(obs).word)
         IN  IF w # <<>>
             THEN <<[word  |-> w,
                     start |-> Round2(Head(obs).start),
                     end   |-> Round2(Head(obs).end)]>> \o ExtractWords(Tail(obs))
             ELSE ExtractWords(Tail(obs))

Extract ==
    /\ mode = "guided" /\ pc = "extract"
    /\ all_aligned_words' = ExtractWords(result)
    /\ words' = <<>>
    /\ idx' = 0
    /\ line_num' = 0
    /\ pc' = "map"
    /\ UNCHANGED <<mode, LYRICS_LINES, result, pos, line_idx, prev_seg,
                   line_texts, pass_num, n, total_fixed, section_map, sections,
                   output>>

\* a slip: the 0.3 s step is forgotten
SynthTime_NoStep(ws) == IF ws # <<>> THEN ws[Len(ws)].time ELSE 0

\* the time of an expected word that has no observation left
SynthTime(ws) == IF ws # <<>> THEN RoundSum(ws[Len(ws)].time, SynthStep) ELSE 0

RECURSIVE MapWords_StopAtUnderrun(_, _, _, _, _)
\* a slip: the loop pairs words with observations and stops when either runs out
MapWords_StopAtUnderrun(expected_words, ln, ws, ix, aligned) ==
    IF expected_words = <<>> \/ ix >= Len(aligned) THEN [words |-> ws, idx |-> ix]
    ELSE MapWords_StopAtUnderrun(Tail(expected_words), ln,
                                 Append(ws, [word |-> Head(expected_words),
                                             time |-> aligned[ix + 1].start,
                                             line |-> ln]),
                                 ix + 1, aligned)

RECURSIVE MapWords(_, _, _, _, _)
\* the inner loop over one line's expected words
MapWords(expected_words, ln, ws, ix, aligned) ==
    IF expected_words = <<>> THEN [words |-> ws, idx |-> ix]
    ELSE IF ix < Len(aligned)
    THEN MapWords(Tail(expected_words), ln,
                  Append(ws, [word |-> Head(expected_words),
                              time |-> aligned[ix + 1].start,
                              line |-> ln]),
                  ix + 1, aligned)
    ELSE MapWords(Tail(expected_words), ln,
                  Append(ws, [word |-> Head(expected_words),
                              time |-> SynthTime(ws),
                              line |-> ln]),
                  ix, aligned)

\* one iteration of the loop over LYRICS_LINES
MapLine ==
    /\ mode = "guided" /\ pc = "map"
    /\ line_num < Len(LYRICS_LINES)
    /\ LET r == MapWords(Split(LYRICS_LINES[line_num + 1]), line_num, words,
                         idx, all_aligned_words)
       IN  /\ words' = r.words
           /\ idx' = r.idx
    /\ line_num' = line_num + 1
    /\ UNCHANGED <<mode, pc, LYRICS_LINES, result, all_aligned_words, pos,
                   line_idx, prev_seg, line_texts, pass_num, n, total_fixed,
                   section_map, sections, output>>

\* {str(i): line for i, line in enumerate(LYRICS_LINES)}; the key str(i) is
\* kept as the integer i
LineTextsOf(lines) == [i \in 0..(Len(lines) - 1) |-> lines[i + 1]]

BuildLineTexts ==
    /\ mode = "guided" /\ pc = "map"
    /\ line_num = Len(LYRICS_LINES)
    /\ line_texts' = LineTextsOf(LYRICS_LINES)
    /\ total_fixed' = 0
    /\ pc' = "repair"
    /\ UNCHANGED <<mode, LYRICS_LINES, result, all_aligned_words, line_num, idx,
                   pos, line_idx, prev_seg, words, pass_num, n, section_map,
                   sections, output>>

\* a slip: the within-line gap test is forgotten
SameLineAnomaly_RegressionOnly(prev_time, cur_time) == cur_time < prev_time

\* the anomaly tests and corrections of fix_timestamps at one position
SameLineAnomaly(prev_time, cur_time) ==
    cur_time < prev_time \/ FloatSubGT(cur_time, prev_time, SameLineMax)

\* a slip: the mapper's 0.3 s step is used for the within-line correction
SameLineFix_SynthStep(prev_time) == RoundSum(prev_time, SynthStep)

SameLineFix(prev_time) == RoundSum(prev_time, SameLineStep)

\* a slip: a line starting before the previous line's last word is let through
CrossLineRegression_Never(prev_time, cur_time) == FALSE

CrossLineRegression(prev_time, cur_time) == cur_time < prev_time

CrossLineRegressionFix(prev_time) == RoundSum(prev_time, CrossLineBack)

CrossLineRunaway(prev_time, cur_time) ==
    FloatSubGT(cur_time, prev_time, CrossLineMax)

CrossLineRunawayFix(prev_time) == RoundSum(prev_time, CrossLineStep)

RECURSIVE FixFrom_RunawayUncounted(_, _, _)
\* a slip: the runaway-gap correction does not count itself (no fixed += 1)
FixFrom_RunawayUncounted(ws, i, fixed) ==
    IF i > Len(ws) THEN [words |-> ws, fixed |-> fixed]
    ELSE LET prev_time == ws[i - 1].time
             cur_time  == ws[i].time
         IN  IF ws[i].line = ws[i - 1].line
             THEN IF SameLineAnomaly(prev_time, cur_time)
                  THEN FixFrom_RunawayUncounted(
                           [ws EXCEPT ![i].time = SameLineFix(prev_time)],
                           i + 1, fixed + 1)
                  ELSE FixFrom_RunawayUncounted(ws, i + 1, fixed)
             ELSE IF CrossLineRegression(prev_time, cur_time)
                  THEN FixFrom_RunawayUncounted(
                           [ws EXCEPT ![i].time = CrossLineRegressionFix(prev_time)],
                           i + 1, fixed + 1)
                  ELSE IF CrossLineRunaway(prev_time, cur_time)
                  THEN FixFrom_RunawayUncounted(
                           [ws EXCEPT ![i].time = CrossLineRunawayFix(prev_time)],
                           i + 1, fixed)
                  ELSE FixFrom_RunawayUncounted(ws, i + 1, fixed)

RECURSIVE FixFrom(_, _, _)
\* fix_timestamps from position i (1-based) on, left to right; prev_time is
\* read from the list as already corrected
FixFrom(ws, i, fixed) ==
    IF i > Len(ws) THEN [words |-> ws, fixed |-> fixed]
    ELSE LET prev_time == ws[i - 1].time
             cur_time  == ws[i].time
         IN  IF ws[i].line = ws[i - 1].line
             THEN IF SameLineAnomaly(prev_time, cur_time)
                  THEN FixFrom([ws EXCEPT ![i].time = SameLineFix(prev_time)],
                               i + 1, fixed + 1)
                  ELSE FixFrom(ws, i + 1, fixed)
             ELSE IF CrossLineRegression(prev_time, cur_time)
                  THEN FixFrom([ws EXCEPT ![i].time = CrossLineRegressionFix(prev_time)],
                               i + 1, fixed + 1)
                  ELSE IF CrossLineRunaway(prev_time, cur_time)
                  THEN FixFrom([ws EXCEPT ![i].time = CrossLineRunawayFix(prev_time)],
                               i + 1, fixed + 1)
                  ELSE FixFrom(ws, i + 1, fixed)

\* a slip: every position is tested against its predecessor's time as it was
\* when the pass began, not as already corrected
SnapshotTime(ws, i) ==
    LET prev_time == ws[i - 1].time
        cur_time  == ws[i].time
    IN  IF ws[i].line = ws[i - 1].line
        THEN IF SameLineAnomaly(prev_time, cur_time)
             THEN SameLineFix(prev_time) ELSE cur_time
        ELSE IF CrossLineRegression(prev_time, cur_time)
             THEN CrossLineRegressionFix(prev_time)
             ELSE IF CrossLineRunaway(prev_time, cur_time)
             THEN CrossLineRunawayFix(prev_time) ELSE cur_time

fix_timestamps_Snapshot(ws) ==
    LET fixed_ws == [i \in 1..Len(ws) |->
                        IF i = 1 THEN ws[i]
                        ELSE [ws[i] EXCEPT !.time = SnapshotTime(ws, i)]]
    IN  [words |-> fixed_ws,
         fixed |-> Cardinality({i \in 1..Len(ws) : fixed_ws[i] # ws[i]})]

fix_timestamps(ws) == FixFrom(ws, 2, 0)

\* whether the repair loop runs another pass after pass number p fixed k
AnotherPass(p, k) == k # 0 /\ p + 1 < MaxPasses

\* one iteration of  for pass_num in range(5)
FixPass ==
    /\ mode = "guided" /\ pc = "repair"
    /\ LET r == fix_timestamps(words)
       IN  /\ words' = r.words
           /\ n' = r.fixed
           /\ total_fixed' = total_fixed + r.fixed
           /\ pass_num' = pass_num + 1
           /\ pc' = IF AnotherPass(pass_num + 1, r.fixed) THEN "repair" ELSE "sections"
    /\ UNCHANGED <<mode, LYRICS_LINES, result, all_aligned_words, line_num, idx,
                   pos, line_idx, prev_seg, line_texts, section_map, sections,
                   output>>

\* [w for w in words if w["line"] == line_num]
LineWords(ws, ln) == SelectSeq(ws, LAMBDA w : w.line = ln)

\* a slip: the section is placed after its line's first word
SectionTime_Late(first_time) == RoundSum(first_time, SectionLead)

\* round(line_w[0]["time"] - 0.5, 2)
SectionTime(first_time) == RoundSum(first_time, 0 - SectionLead)

MinOf(S) == CHOOSE x \in S : \A y \in S : x <= y

RECURSIVE SectionsFrom(_, _, _)
\* the loop over sorted(section_map.items()), keys being those still to visit
SectionsFrom(keys, sm, ws) ==
    IF keys = {} THEN <<>>
    ELSE LET ln     == MinOf(keys)
             line_w == LineWords(ws, ln)
         IN  (IF line_w # <<>>
              THEN <<[time |-> SectionTime(line_w[1].time), label |-> sm[ln]]>>
              ELSE <<>>) \o SectionsFrom(keys \ {ln}, sm, ws)

BuildSections(sm, ws) == SectionsFrom(DOMAIN sm, sm, ws)

\* The section tables explored with given lyrics: every table with plain
\* lyrics and with the example, the full table with arbitrary text.
SectionMapsFor(lines) ==
    IF PlainLyrics(lines) \/ lines = ExampleLyrics
    THEN SectionMaps ELSE {FullSectionMap}

\* section_map = {...} and the loop that builds sections
Label ==
    /\ mode = "guided" /\ pc = "sections"
    /\ \E sm \in SectionMapsFor(LYRICS_LINES) :
          /\ section_map' = sm
          /\ sections' = BuildSections(sm, words)
    /\ pc' = "output"
    /\ UNCHANGED <<mode, LYRICS_LINES, result, all_aligned_words, line_num, idx,
                   pos, line_idx, prev_seg, words, line_texts, pass_num, n,
                   total_fixed, output>>

\* output = {...} of transcribe_v2.py
GuidedOutput ==
    /\ mode = "guided" /\ pc = "output"
    /\ output' = [words      |-> words,
                  lines      |-> line_texts,
                  sections   |-> sections,
                  totalWords |-> Len(words),
                  totalLines |-> Cardinality(DOMAIN line_texts)]
    /\ pc' = "done"
    /\ UNCHANGED <<mode, LYRICS_LINES, result, all_aligned_words, line_num, idx,
                   pos, line_idx, prev_seg, words, line_texts, pass_num, n,
                   total_fixed, section_map, sections>>

(***************************************************************************)
(* transcribe.py: free transcription.                                      *)
(***************************************************************************)
\* model.transcribe(...) and model.align(...): the engine returns its
\* observations; words, line_idx and prev_seg are set up for the loop
Transcribe ==
    /\ mode = "free" /\ pc = "start"
    /\ result' \in SeqsUpTo(FreeObs, MaxObs)
    /\ words' = <<>>
    /\ line_idx' = 0
    /\ prev_seg' = -1
    /\ pos' = 0
    /\ pc' = "segment"
    /\ UNCHANGED <<mode, LYRICS_LINES, all_aligned_words, line_num, idx,
                   line_texts, pass_num, n, total_fixed, section_map, sections,
                   output>>

\* whether the observation of segment seg starting at t opens a new line:
\*   words and segment.id != prev_seg  and  t - last_end > 0.8
\* where last_end is the "_end" the last record always carries
LineBreak(ws, seg, prev, t) ==
    /\ ws # <<>>
    /\ seg # prev
    /\ FloatSubGT(t, ws[Len(ws)]._end, PauseGap)

\* one iteration of the loops over result.segments and segment.words
SegmentWord ==
    /\ mode = "free" /\ pc = "segment"
    /\ pos < Len(result)
    /\ LET word_obj == result[pos + 1]
           w        == Strip(word_obj.word)
           t        == Round2(word_obj.start)
           li       == IF LineBreak(words, word_obj.seg, prev_seg, t)
                       THEN line_idx + 1 ELSE line_idx
       IN  IF w = <<>>
           THEN UNCHANGED <<words, line_idx, prev_seg>>
           ELSE /\ line_idx' = li
                /\ words' = Append(words, [word |-> w, time |-> t, line |-> li,
                                           _end |-> Round2(word_obj.end)])
                /\ prev_seg' = word_obj.seg
    /\ pos' = pos + 1
    /\ UNCHANGED <<mode, pc, LYRICS_LINES, result, all_aligned_words, line_num,
                   idx, line_texts, pass_num, n, total_fixed, section_map,
                   sections, output>>

\* for w in words: del w["_end"]
StripEnd ==
    /\ mode = "free" /\ pc = "segment"
    /\ pos = Len(result)
    /\ words' = [i \in 1..Len(words) |->
                    [word |-> words[i].word, time |-> words[i].time,
                     line |-> words[i].line]]
    /\ pc' = "lines"
    /\ UNCHANGED <<mode, LYRICS_LINES, result, all_aligned_words, line_num, idx,
                   pos, line_idx, prev_seg, line_texts, pass_num, n,
                   total_fixed, section_map, sections, output>>

\* the line values that occur in a word list
LinesOf(ws) == {ws[i].line : i \in 1..Len(ws)}

\* lines.setdefault(w["line"], []).append(w["word"]), then " ".join
GroupLines(ws) ==
    [k \in LinesOf(ws) |->
        Join([i \in 1..Len(LineWords(ws, k)) |-> LineWords(ws, k)[i].word])]

\* line_texts and output = {...} of transcribe.py
FreeOutput ==
    /\ mode = "free" /\ pc = "lines"
    /\ line_texts' = GroupLines(words)
    /\ output' = [words      |-> words,
                  lines      |-> GroupLines(words),
                  totalWords |-> Len(words),
                  totalLines |-> Cardinality(DOMAIN GroupLines(words))]
    /\ pc' = "done"
    /\ UNCHANGED <<mode, LYRICS_LINES, result, all_aligned_words, line_num, idx,
                   pos, line_idx, prev_seg, words, pass_num, n, total_fixed,
                   section_map, sections>>

Next ==
    \/ Align
    \/ Extract
    \/ MapLine
    \/ BuildLineTexts
    \/ FixPass
    \/ Label
    \/ GuidedOutput
    \/ Transcribe
    \/ SegmentWord
    \/ StripEnd
    \/ FreeOutput

Spec == Init /\ [][Next]_vars

(***************************************************************************)
(* Vocabulary of the properties.                                           *)
(***************************************************************************)
\* the mapping loop of transcribe_v2.py has finished
MappingDone == mode = "guided" /\ pc \in {"repair", "sections", "output", "done"}

\* ... and the repair loop has not started
JustMapped == mode = "guided" /\ pc = "repair" /\ pass_num = -1

\* the repair loop of transcribe_v2.py has finished
RepairDone == mode = "guided" /\ pc \in {"sections", "output", "done"}

\* the repair loop stopped because its last pass made no fix
Converged == RepairDone /\ n = 0

\* the expected words of line number i (1-based), with their line index
ExpectedOfLine(lines, i) ==
    [k \in 1..Len(Split(lines[i])) |-> [word |-> Split(lines[i])[k], line |-> i - 1]]

RECURSIVE ExpectedUpTo(_, _)
ExpectedUpTo(lines, m) ==
    IF m = 0 THEN <<>> ELSE ExpectedUpTo(lines, m - 1) \o ExpectedOfLine(lines, m)

\* all expected words of the lyrics, in order
Expected(lines) == ExpectedUpTo(lines, Len(lines))

Min2(x, y) == IF x <= y THEN x ELSE y

\* the position of the first word of line ln, which has one
FirstOfLine(ws, ln) ==
    CHOOSE i \in 1..Len(ws) : ws[i].line = ln /\ \A j \in 1..(i - 1) : ws[j].line # ln

\* the mapped line indices that have a word
LabelledLines(sm, ws) == {ln \in DOMAIN sm : \E i \in 1..Len(ws) : ws[i].line = ln}

\* the observations whose text is not blank, in order
NonBlank(obs) == SelectSeq(obs, LAMBDA o : Strip(o.word) # <<>>)

(***************************************************************************)
(* C1  Repair monotonicity after convergence: once the repair loop has     *)
(* stopped because a pass made zero fixes, every adjacent pair of words    *)
(* has time[i] >= time[i-1], with time[i] - time[i-1] <= 4.0 s on the same *)
(* line and <= 10.0 s across lines.                                        *)
(***************************************************************************)
C1_RepairMonotone ==
    Converged =>
        \A i \in 2..Len(words) :
            LET gap == words[i].time - words[i - 1].time
            IN  /\ gap >= 0
                /\ words[i].line = words[i - 1].line => gap <= SameLineMax
                /\ words[i].line # words[i - 1].line => gap <= CrossLineMax

\* a converged list that needed fixes and keeps a same-line gap of exactly
\* 4.00 s and a cross-line pair
C1_Witness ==
    /\ Converged /\ pc = "sections" /\ total_fixed > 0
    /\ \E i \in 2..Len(words) :
          /\ words[i].line = words[i - 1].line
          /\ words[i].time - words[i - 1].time = SameLineMax
    /\ \E i \in 2..Len(words) : words[i].line # words[i - 1].line

(***************************************************************************)
(* C2  End-to-end guided example, as the spec states it: the example's     *)
(* lyrics and observations yield hello 0.00, world 0.68, goodbye 5.60,     *)
(* now 6.10 with 1 fix in total.                                           *)
(***************************************************************************)
ExampleWords(world_time) ==
    << [word |-> <<"h", "e", "l", "l", "o">>, time |-> 0, line |-> 0],
       [word |-> <<"w", "o", "r", "l", "d">>, time |-> world_time, line |-> 0],
       [word |-> <<"g", "o", "o", "d", "b", "y", "e">>, time |-> 560, line |-> 1],
       [word |-> <<"n", "o", "w">>, time |-> 610, line |-> 1] >>

ExampleRun == RepairDone /\ LYRICS_LINES = ExampleLyrics /\ result = ExampleResult

C2_ExampleAsStated ==
    ExampleRun => words = ExampleWords(68) /\ total_fixed = 1

\* C2 as amended: "world" is corrected to 0.00 + 0.28 = 0.28, the time of
\* "hello" plus 0.28; the rest is as stated.
C2_Example ==
    ExampleRun => words = ExampleWords(28) /\ total_fixed = 1

C2_Witness == ExampleRun /\ pc = "done"

(***************************************************************************)
(* C3  Mapper word-count invariant: with W expected words and N aligned    *)
(* observations the mapper returns exactly W records; the k-th carries the *)
(* k-th expected word's text and line index; observations beyond the W-th  *)
(* are not consumed.                                                       *)
(***************************************************************************)
C3_MapperWordCount ==
    MappingDone =>
        LET E == Expected(LYRICS_LINES)
        IN  /\ Len(words) = Len(E)
            /\ \A k \in 1..Len(E) :
                  words[k].word = E[k].word /\ words[k].line = E[k].line
            /\ idx = Min2(Len(all_aligned_words), Len(E))

\* fewer observations than expected words, on two lines, the recognised
\* text differing from the expected text
C3_Witness ==
    /\ JustMapped
    /\ Len(all_aligned_words) >= 1
    /\ Len(all_aligned_words) < Len(words)
    /\ words[1].line # words[Len(words)].line
    /\ all_aligned_words[1].word # words[1].word

(***************************************************************************)
(* C4  Pause-triggers-break in the Line Segmenter: the k-th word gets a    *)
(* line index one higher than the word before it iff their observations'   *)
(* segment ids differ and start - previous end (both rounded to 2          *)
(* decimals) exceeds 0.8 s, and the same line index otherwise (a gap of    *)
(* exactly 0.8 s included); blank observations produce no record and       *)
(* change nothing.                                                         *)
(***************************************************************************)
C4_PauseTriggersBreak ==
    (mode = "free" /\ pc \in {"lines", "done"}) =>
        LET obs == NonBlank(result)
        IN  /\ Len(words) = Len(obs)
            /\ \A k \in 1..Len(words) :
                  words[k].line =
                     IF k = 1 THEN 0
                     ELSE IF /\ obs[k].seg # obs[k - 1].seg
                             /\ Round2(obs[k].start) - Round2(obs[k - 1].end) > PauseGap
                          THEN words[k - 1].line + 1
                          ELSE words[k - 1].line

(***************************************************************************)
(* C5  Lines mapping matches observed line indices: in the output of       *)
(* either script the keys of lines are exactly the line values occurring   *)
(* in words, they are 0..totalLines-1, and totalLines is the number of     *)
(* distinct line values in words.                                          *)
(***************************************************************************)
C5_LinesMatchWords ==
    pc = "done" =>
        /\ DOMAIN output.lines = LinesOf(output.words)
        /\ DOMAIN output.lines = 0..(output.totalLines - 1)
        /\ output.totalLines = Cardinality(LinesOf(output.words))

(***************************************************************************)
(* C6  Section anchoring, as the spec states it: for every entry           *)
(* L -> label of the section map whose line L has a word, exactly one      *)
(* Section with that label is emitted, at round(T - 0.5, 2) for T the      *)
(* post-repair time of the first word of line L; the number of sections    *)
(* is the number of mapped lines that have a word.                         *)
(***************************************************************************)
C6_AnchoringAsStated ==
    (mode = "guided" /\ pc \in {"output", "done"}) =>
        /\ Len(sections) = Cardinality(LabelledLines(section_map, words))
        /\ \A ln \in LabelledLines(section_map, words) :
              LET S == {i \in 1..Len(sections) : sections[i].label = section_map[ln]}
              IN  /\ Cardinality(S) = 1
                  /\ \A i \in S :
                        sections[i].time = words[FirstOfLine(words, ln)].time - SectionLead

\* C6 as amended: exactly one Section is emitted per entry whose line has a
\* word, in ascending line order, carrying the entry's label (entries that
\* share a label give several Sections with that label) and the time
\* round(T - 0.5, 2); entries whose line has no word give none.
C6_Anchoring ==
    (mode = "guided" /\ pc \in {"output", "done"}) =>
        LET K == LabelledLines(section_map, words)
        IN  /\ Len(sections) = Cardinality(K)
            /\ \A ln \in K :
                  sections[Cardinality({x \in K : x <= ln})] =
                     [time  |-> words[FirstOfLine(words, ln)].time - SectionLead,
                      label |-> section_map[ln]]

\* two lines with words share a label, another entry's line has no word,
\* and the repair moved the first word of a labelled line
C6_Witness ==
    /\ mode = "guided" /\ pc = "done"
    /\ Len(sections) = 2
    /\ sections[1].label = sections[2].label
    /\ Cardinality(DOMAIN section_map) > Len(sections)
    /\ FirstOfLine(words, 1) <= Len(all_aligned_words)
    /\ words[FirstOfLine(words, 1)].time # all_aligned_words[FirstOfLine(words, 1)].start

(***************************************************************************)
(* C7  Sections are ordered by time: the emitted sections, built in        *)
(* ascending line order from the repaired words, have non-decreasing       *)
(* times.                                                                  *)
(***************************************************************************)
C7_SectionsOrdered ==
    (mode = "guided" /\ pc \in {"output", "done"}) =>
        \A i \in 1..Len(sections) : \A j \in i..Len(sections) :
            sections[i].time <= sections[j].time

\* two sections, the second line observed before the first
C7_Witness ==
    /\ mode = "guided" /\ pc = "done"
    /\ Len(sections) = 2
    /\ sections[1].time < sections[2].time
    /\ FirstOfLine(words, 1) <= Len(all_aligned_words)
    /\ all_aligned_words[FirstOfLine(words, 1)].start < all_aligned_words[1].start

(***************************************************************************)
(* C8  Repair idempotence: a pass that makes zero fixes leaves every word  *)
(* unchanged, and running fix_timestamps (hence the repair loop, which     *)
(* stops after a zero-fix pass) again on that list makes zero fixes and    *)
(* changes nothing.                                                        *)
(***************************************************************************)
C8_RepairIdempotent ==
    [][(FixPass /\ n' = 0) =>
          /\ words' = words
          /\ fix_timestamps(words').fixed = 0
          /\ fix_timestamps(words').words = words'
          /\ ~AnotherPass(0, fix_timestamps(words').fixed)]_vars

\* a zero-fix pass after a pass that fixed something
C8_Witness ==
    /\ mode = "guided" /\ pc = "sections"
    /\ n = 0 /\ pass_num = 1 /\ total_fixed > 1

(***************************************************************************)
(* C9  Mapping underrun fallback: every expected word beyond the aligned   *)
(* observations gets the time of the record before it plus 0.3 s, also     *)
(* across line boundaries, and 0.0 if it is the very first record.         *)
(***************************************************************************)
C9_UnderrunFallback ==
    (mode = "guided" /\ (pc = "map" \/ JustMapped)) =>
        \A k \in 1..Len(words) :
            k > Len(all_aligned_words) =>
                words[k].time = IF k = 1 THEN 0 ELSE words[k - 1].time + SynthStep

\* two synthesised words after an observed one, the last on another line
C9_Witness ==
    /\ JustMapped
    /\ Len(all_aligned_words) >= 1
    /\ Len(words) >= Len(all_aligned_words) + 2
    /\ words[Len(words)].line # words[Len(words) - 1].line

(***************************************************************************)
(* C10  Repair converges in at most two passes, as the claim states it:    *)
(* the loop always ends by a zero-fix pass, after at most 2 passes, and    *)
(* the total fix count is at most len(words) - 1.                          *)
(***************************************************************************)
C10_TwoPassesAsStated ==
    RepairDone =>
        /\ n = 0
        /\ pass_num + 1 <= 2
        /\ total_fixed <= Len(words) - 1

\* C10 as amended: ... the total fix count is at most len(words) - 1 for a
\* non-empty word list and 0 for an empty one.
C10_TwoPasses ==
    RepairDone =>
        /\ n = 0
        /\ pass_num + 1 <= 2
        /\ total_fixed <= Max2(Len(words) - 1, 0)

\* every position after the first was fixed, in one pass, and the second
\* pass fixed nothing
C10_Witness ==
    /\ mode = "guided" /\ pc = "sections"
    /\ pass_num = 1 /\ n = 0
    /\ Len(words) >= 3
    /\ total_fixed = Len(words) - 1

=============================================================================
